---- MODULE Spec2Model ----
(***************************************************************************)
(* Model of internal/codegen/kotlin/gen.go: the construction of the Enum, *)
(* Struct and Query descriptors that the Kotlin templates render.         *)
(*                                                                         *)
(* Go strings that the code takes apart (names, enum values) are          *)
(* sequences of one-character strings, "" is << >>.  A nil pointer is the *)
(* empty sequence and a non-nil pointer to v is << v >>.                  *)
(***************************************************************************)
EXTENDS Integers, Sequences, FiniteSets, TLC

(***************************************************************************)
(* Bounds of the model.                                                    *)
(***************************************************************************)
MaxParams == 3
MaxNumber == 2
MaxColumns == 3
MaxQueries == 3
MaxTables == 3
MaxVals == 2
MaxText == 4

(***************************************************************************)
(* Characters and the Go standard library's string functions.             *)
(***************************************************************************)
Lowers == <<"a","b","c","d","e","f","g","h","i","j","k","l","m",
            "n","o","p","q","r","s","t","u","v","w","x","y","z">>
Uppers == <<"A","B","C","D","E","F","G","H","I","J","K","L","M",
            "N","O","P","Q","R","S","T","U","V","W","X","Y","Z">>
Digits == <<"0","1","2","3","4","5","6","7","8","9">>

InSeq(c, s) == \E i \in 1..Len(s) : s[i] = c
IndexOf(c, s) == CHOOSE i \in 1..Len(s) : s[i] = c

ToUpperCh(c) == IF InSeq(c, Lowers) THEN Uppers[IndexOf(c, Lowers)] ELSE c
ToLowerCh(c) == IF InSeq(c, Uppers) THEN Lowers[IndexOf(c, Uppers)] ELSE c

ToUpper(s) == [i \in 1..Len(s) |-> ToUpperCh(s[i])]
ToLower(s) == [i \in 1..Len(s) |-> ToLowerCh(s[i])]

IsAlnum(c) == InSeq(c, Lowers) \/ InSeq(c, Uppers) \/ InSeq(c, Digits)

\* strings.isSeparator: letters, digits and underscore are not separators
IsSeparator(c) == ~(IsAlnum(c) \/ c = "_")

\* strings.Title: the letter that begins each word is upper-cased
Title(s) ==
    [i \in 1..Len(s) |->
        IF i = 1 \/ IsSeparator(s[i-1]) THEN ToUpperCh(s[i]) ELSE s[i]]

\* strings.Split(s, sep) for a one-character separator
RECURSIVE SplitAcc(_, _, _, _)
SplitAcc(s, sep, cur, out) ==
    IF s = << >> THEN Append(out, cur)
    ELSE IF Head(s) = sep THEN SplitAcc(Tail(s), sep, << >>, Append(out, cur))
    ELSE SplitAcc(Tail(s), sep, Append(cur, Head(s)), out)

Split(s, sep) == SplitAcc(s, sep, << >>, << >>)

\* strings.Replace(s, from, to, -1) for one-character from and to
ReplaceCh(s, from, to) == [i \in 1..Len(s) |-> IF s[i] = from THEN to ELSE s[i]]

\* the decimal digits of n >= 0, as fmt's %d prints them
RECURSIVE Itoa(_)
Itoa(n) == IF n < 10 THEN << Digits[n + 1] >>
           ELSE Append(Itoa(n \div 10), Digits[(n % 10) + 1])

\* a Go map lookup: the zero value when the key is absent
MapGet(m, k, zero) == IF k \in DOMAIN m THEN m[k] ELSE zero
MapPut(m, k, v) == [x \in DOMAIN m \cup {k} |-> IF x = k THEN v ELSE m[x]]
EmptyMap == [x \in {} |-> 0]

Range(s) == {s[i] : i \in 1..Len(s)}

RECURSIVE FlattenSeq(_)
FlattenSeq(ss) == IF ss = << >> THEN << >> ELSE Head(ss) \o FlattenSeq(Tail(ss))

SeqsUpTo(S, n) == UNION {[1..k -> S] : k \in 0..n}

(***************************************************************************)
(* String constants of the source.                                         *)
(***************************************************************************)
Underscore == << "_" >>
PgCatalog == <<"p","g","_","c","a","t","a","l","o","g">>
InformationSchema == <<"i","n","f","o","r","m","a","t","i","o","n","_",
                       "s","c","h","e","m","a">>
StrBindings == <<"B","i","n","d","i","n","g","s">>
StrRow == <<"R","o","w">>
StrStmt == <<"S","t","m","t">>
StrDollar == <<"d","o","l","l","a","r","_">>
StrColumn == <<"c","o","l","u","m","n","_">>
StrAny == <<"A","n","y">>

\* metadata.Cmd*: the command kinds of a query annotation
CmdOne == ":one"
CmdMany == ":many"
CmdExec == ":exec"
CmdExecRows == ":execrows"
CmdExecResult == ":execresult"
CmdCopyFrom == ":copyfrom"

(***************************************************************************)
(* ktIdentPattern, ktEnumValueName                                         *)
(***************************************************************************)
\* ktIdentPattern = [^a-zA-Z0-9_]+ : the characters ReplaceAllString removes
KtIdentStrip(s) == SelectSeq(s, LAMBDA c : IsAlnum(c) \/ c = "_")

ktEnumValueName(value) ==
    ToUpper(KtIdentStrip(
        ReplaceCh(ReplaceCh(ReplaceCh(value, "-", "_"), ":", "_"), "/", "_")))

(***************************************************************************)
(* Helpers of the repository outside gen.go (sdk, inflection, the          *)
(* per-engine type tables).                                                *)
(***************************************************************************)
\* sdk.LowerTitle: the first character lower-cased
LowerTitle(s) == IF s = << >> THEN s ELSE << ToLowerCh(Head(s)) >> \o Tail(s)

\* sdk.DataType: the raw type name, schema-qualified when a schema is given
DataType(t) == IF t.Schema # << >> THEN t.Schema \o << "." >> \o t.Name ELSE t.Name

\* sdk.SameTableName: an unqualified table is in the default schema
SameTableName(tableID, f, defaultSchema) ==
    IF tableID = << >> THEN FALSE
    ELSE LET schema == IF tableID[1].Schema = << >> THEN defaultSchema
                       ELSE tableID[1].Schema
         IN schema = f.Schema /\ tableID[1].Name = f.Name

\* inflection.Singular: a plural table name made singular, unless excluded
Singular(name, exclusions) ==
    IF name \in exclusions THEN name
    ELSE IF Len(name) > 1 /\ name[Len(name)] = "s" THEN SubSeq(name, 1, Len(name) - 1)
    ELSE name

TText == <<"t","e","x","t">>
TInt4 == <<"i","n","t","4">>
TUuid == <<"u","u","i","d">>
KString == <<"S","t","r","i","n","g">>
KInt == <<"I","n","t">>
KUUID == <<"U","U","I","D">>

(***************************************************************************)
(* dataClassName, memberName                                               *)
(***************************************************************************)
dataClassName(name, settings) ==
    LET rename == MapGet(settings.Rename, name, << >>)
    IN IF rename # << >> THEN rename
       ELSE LET parts == Split(name, "_")
            IN FlattenSeq([i \in 1..Len(parts) |-> Title(parts[i])])

memberName(name, settings) == LowerTitle(dataClassName(name, settings))

\* every enum of the catalog outside the system schemas, with its schema
CatalogEnums(req) ==
    FlattenSeq([i \in 1..Len(req.Catalog.Schemas) |->
        LET schema == req.Catalog.Schemas[i]
        IN IF schema.Name = PgCatalog \/ schema.Name = InformationSchema THEN << >>
           ELSE [j \in 1..Len(schema.Enums) |->
                    [Schema |-> schema.Name, Enum |-> schema.Enums[j]]]])

EnumName(req, schemaName, enum) ==
    IF schemaName = req.Catalog.DefaultSchema THEN enum.Name
    ELSE schemaName \o Underscore \o enum.Name

\* postgresType: the Kotlin type of a PostgreSQL column, an enum of the catalog
\* by its class name, anything unknown as Any
postgresType(req, col) ==
    LET columnType == DataType(col.Type)
        es == CatalogEnums(req)
        hit == {i \in 1..Len(es) : es[i].Enum.Name = columnType}
    IN CASE columnType = TText -> << KString, FALSE >>
         [] columnType = TInt4 -> << KInt, FALSE >>
         [] columnType = TUuid -> << KUUID, FALSE >>
         [] OTHER ->
              IF hit # {}
              THEN LET e == es[CHOOSE i \in hit : \A j \in hit : i <= j]
                   IN << dataClassName(EnumName(req, e.Schema, e.Enum), req.Settings), TRUE >>
              ELSE << StrAny, FALSE >>

\* mysqlType: the Kotlin type of a MySQL column
mysqlType(req, col) ==
    LET columnType == DataType(col.Type)
    IN CASE columnType = TText -> << KString, FALSE >>
         [] OTHER -> << StrAny, FALSE >>

(***************************************************************************)
(* ktType, makeType, ktInnerType                                           *)
(***************************************************************************)
ZeroKtType ==
    [Name |-> << >>, IsEnum |-> FALSE, IsArray |-> FALSE, IsNull |-> FALSE,
     DataType |-> << >>, Engine |-> ""]

ktInnerType(req, col) ==
    CASE req.Settings.Engine = "mysql" -> mysqlType(req, col)
      [] req.Settings.Engine = "postgresql" -> postgresType(req, col)
      [] OTHER -> << StrAny, FALSE >>

makeType(req, col) ==
    LET inner == ktInnerType(req, col)
    IN [Name |-> inner[1], IsEnum |-> inner[2], IsArray |-> col.IsArray,
        IsNull |-> ~col.NotNull, DataType |-> DataType(col.Type),
        Engine |-> req.Settings.Engine]

(***************************************************************************)
(* buildEnums                                                              *)
(***************************************************************************)
\* Go's < on strings: byte-wise lexicographic order
CharCode(c) ==
    CASE InSeq(c, Digits) -> 48 + IndexOf(c, Digits) - 1
      [] InSeq(c, Uppers) -> 65 + IndexOf(c, Uppers) - 1
      [] c = "_" -> 95
      [] InSeq(c, Lowers) -> 97 + IndexOf(c, Lowers) - 1
      [] c = "$" -> 36
      [] c = "-" -> 45
      [] c = "." -> 46
      [] c = "/" -> 47
      [] c = ":" -> 58
      [] OTHER -> 32

RECURSIVE StrLess(_, _)
StrLess(a, b) ==
    IF b = << >> THEN FALSE
    ELSE IF a = << >> THEN TRUE
    ELSE IF Head(a) # Head(b) THEN CharCode(Head(a)) < CharCode(Head(b))
    ELSE StrLess(Tail(a), Tail(b))

\* sort.Slice(s, less) with less comparing the keys: up to 6 elements every
\* release of Go sorts by insertion alone, moving an element left while it is less
RECURSIVE InsertSorted(_, _)
InsertSorted(sorted, x) ==
    IF sorted = << >> THEN << x >>
    ELSE LET last == sorted[Len(sorted)]
         IN IF StrLess(x.Key, last.Key)
            THEN Append(InsertSorted(SubSeq(sorted, 1, Len(sorted) - 1), x), last)
            ELSE Append(sorted, x)

RECURSIVE SortSliceFrom(_, _, _)
SortSliceFrom(s, i, acc) ==
    IF i > Len(s) THEN acc
    ELSE SortSliceFrom(s, i + 1, InsertSorted(acc, s[i]))

SortSlice(s, keys) ==
    LET sorted == SortSliceFrom([i \in 1..Len(s) |-> [Key |-> keys[i], Val |-> s[i]]],
                                1, << >>)
    IN [i \in 1..Len(s) |-> sorted[i].Val]

SortByName(s) == SortSlice(s, [i \in 1..Len(s) |-> s[i].Name])

buildEnum(req, schemaName, enum) ==
    LET name == dataClassName(EnumName(req, schemaName, enum), req.Settings)
    IN [Name |-> name, Comment |-> enum.Comment,
        Constants |-> [k \in 1..Len(enum.Vals) |->
            [Name |-> ktEnumValueName(enum.Vals[k]), Value |-> enum.Vals[k],
             Type |-> name]]]

buildEnums(req) ==
    LET es == CatalogEnums(req)
        enums == [i \in 1..Len(es) |-> buildEnum(req, es[i].Schema, es[i].Enum)]
    IN IF Len(enums) > 0 THEN SortByName(enums) ELSE enums

(***************************************************************************)
(* buildDataClasses                                                        *)
(***************************************************************************)
buildDataClass(req, schemaName, table) ==
    LET tableName == IF schemaName = req.Catalog.DefaultSchema THEN table.Rel.Name
                     ELSE schemaName \o Underscore \o table.Rel.Name
        className == dataClassName(tableName, req.Settings)
        structName == IF ~req.Settings.Kotlin.EmitExactTableNames
                      THEN Singular(className, req.Settings.Kotlin.InflectionExcludeTableNames)
                      ELSE className
    IN [Table |-> [Schema |-> schemaName, Name |-> table.Rel.Name],
        Name |-> structName,
        Fields |-> [k \in 1..Len(table.Columns) |->
            [Name |-> memberName(table.Columns[k].Name, req.Settings),
             Type |-> makeType(req, table.Columns[k]),
             Comment |-> table.Columns[k].Comment]],
        JDBCParamBindings |-> << >>,
        Comment |-> table.Comment]

DataClassesUnsorted(req) ==
    FlattenSeq([i \in 1..Len(req.Catalog.Schemas) |->
        LET schema == req.Catalog.Schemas[i]
        IN IF schema.Name = PgCatalog \/ schema.Name = InformationSchema THEN << >>
           ELSE [j \in 1..Len(schema.Tables) |->
                    buildDataClass(req, schema.Name, schema.Tables[j])]])

buildDataClasses(req) ==
    LET structs == DataClassesUnsorted(req)
    IN IF Len(structs) > 0 THEN SortByName(structs) ELSE structs

(***************************************************************************)
(* ktColumnsToStruct: the state of its loop and one iteration              *)
(***************************************************************************)
ZeroIdentifier == [Schema |-> << >>, Name |-> << >>]

ktArgName(name) ==
    LET parts == Split(name, "_")
    IN FlattenSeq([i \in 1..Len(parts) |->
          IF i = 1 THEN ToLower(parts[i]) ELSE Title(parts[i])])

ktParamName(c, number) ==
    IF c.Name # << >> THEN ktArgName(c.Name) ELSE StrDollar \o Itoa(number)

ktColumnName(c, pos) ==
    IF c.Name # << >> THEN c.Name ELSE StrColumn \o Itoa(pos + 1)

\* the namer argument: ktParamName for an argument struct, ktColumnName for a row
Namer(namer, c, id) ==
    IF namer = "ktParamName" THEN ktParamName(c, id) ELSE ktColumnName(c, id)

KtStart(name) ==
    [gs |-> [Table |-> ZeroIdentifier, Name |-> name, Fields |-> << >>,
             JDBCParamBindings |-> << >>, Comment |-> << >>],
     idSeen |-> EmptyMap, nameSeen |-> EmptyMap]

\* the name of the Field a column gets, suffixed when its raw name was seen
KtFieldName(req, st, c, namer) ==
    LET fieldName == memberName(Namer(namer, c.Column, c.id), req.Settings)
        v == MapGet(st.nameSeen, c.Column.Name, 0)
    IN IF v > 0 THEN fieldName \o Underscore \o Itoa(v + 1) ELSE fieldName

\* KtRebind binding the Field made last instead of the one of the number
KtRebindLast(st, c) ==
    [st EXCEPT !.gs.JDBCParamBindings = Append(@, st.gs.Fields[Len(st.gs.Fields)])]

\* the iteration for a number that was seen: its Field is bound again
KtRebind(st, c) ==
    [st EXCEPT !.gs.JDBCParamBindings = Append(@, st.idSeen[c.id])]

\* KtAddField without idSeen[c.id] = field
KtAddFieldForget(req, st, c, namer) ==
    LET field == [Name |-> KtFieldName(req, st, c, namer),
                  Type |-> makeType(req, c.Column), Comment |-> << >>]
    IN [gs |-> [st.gs EXCEPT !.Fields = Append(@, field),
                             !.JDBCParamBindings = Append(@, field)],
        idSeen |-> st.idSeen,
        nameSeen |-> MapPut(st.nameSeen, c.Column.Name,
                            MapGet(st.nameSeen, c.Column.Name, 0) + 1)]

\* the iteration for a new number: a Field is made and bound
KtAddField(req, st, c, namer) ==
    LET field == [Name |-> KtFieldName(req, st, c, namer),
                  Type |-> makeType(req, c.Column), Comment |-> << >>]
    IN [gs |-> [st.gs EXCEPT !.Fields = Append(@, field),
                             !.JDBCParamBindings = Append(@, field)],
        idSeen |-> MapPut(st.idSeen, c.id, field),
        nameSeen |-> MapPut(st.nameSeen, c.Column.Name,
                            MapGet(st.nameSeen, c.Column.Name, 0) + 1)]

(***************************************************************************)
(* jdbcSQL: postgresPlaceholderRegexp = \B\$\d+\b replaced by "?"          *)
(***************************************************************************)
IsWordCh(c) == IsAlnum(c) \/ c = "_"
IsDigit(c) == InSeq(c, Digits)

\* the end of the longest run of digits that starts at position i
RECURSIVE DigitsEnd(_, _)
DigitsEnd(s, i) == IF i <= Len(s) /\ IsDigit(s[i]) THEN DigitsEnd(s, i + 1) ELSE i - 1

\* the regexp matches at i: no word boundary before the "$", digits after it,
\* and a word boundary after the last digit
PlaceholderAt(s, i) ==
    /\ s[i] = "$"
    /\ (i = 1 \/ ~IsWordCh(s[i-1]))
    /\ DigitsEnd(s, i + 1) > i
    /\ LET e == DigitsEnd(s, i + 1) IN e = Len(s) \/ ~IsWordCh(s[e+1])

RECURSIVE ReplacePlaceholders(_, _)
ReplacePlaceholders(s, i) ==
    IF i > Len(s) THEN << >>
    ELSE IF PlaceholderAt(s, i)
         THEN << "?" >> \o ReplacePlaceholders(s, DigitsEnd(s, i + 1) + 1)
         ELSE << s[i] >> \o ReplacePlaceholders(s, i + 1)

jdbcSQL(s, engine) == IF engine = "postgresql" THEN ReplacePlaceholders(s, 1) ELSE s

(***************************************************************************)
(* buildQueries: the parts of one iteration                                *)
(***************************************************************************)
ZeroQueryValue ==
    [Emit |-> FALSE, Name |-> "", Struct |-> << >>, Typ |-> ZeroKtType,
     JDBCParamBindCount |-> 0]

\* QueryValue.isEmpty
isEmpty(v) == v.Typ = ZeroKtType /\ v.Name = "" /\ v.Struct = << >>

\* QueryValue.IsStruct
IsStruct(v) == v.Struct # << >>

\* the Query as first built, before Arg and Ret are set
NewQuery(req, query) ==
    [Cmd |-> query.Cmd,
     ClassName |-> Title(query.Name),
     ConstantName |-> LowerTitle(query.Name),
     FieldName |-> LowerTitle(query.Name) \o StrStmt,
     MethodName |-> LowerTitle(query.Name),
     SourceName |-> query.Filename,
     SQL |-> jdbcSQL(query.Text, req.Settings.Engine),
     Comments |-> query.Comments,
     Ret |-> ZeroQueryValue,
     Arg |-> [Struct |-> << >>]]

ParamColumns(query) ==
    [i \in 1..Len(query.Params) |->
        [id |-> query.Params[i].Number, Column |-> query.Params[i].Column]]

\* the synthesized row's columns: the id is the 0-based position
RowColumns(query) ==
    [i \in 1..Len(query.Columns) |-> [id |-> i - 1, Column |-> query.Columns[i]]]

\* the three comparisons at position i (1-based here, i-1 in the source)
SameAt(req, s, query, i) ==
    LET c == query.Columns[i]
        f == s.Fields[i]
        sameName == f.Name = memberName(ktColumnName(c, i - 1), req.Settings)
        sameType == f.Type = makeType(req, c)
        sameTable == SameTableName(c.Table, s.Table, req.Catalog.DefaultSchema)
    IN sameName /\ sameType /\ sameTable

\* SameLoop with same assigned at every position, so that the last one decides
RECURSIVE SameLoopLastOnly(_, _, _, _, _)
SameLoopLastOnly(req, s, query, i, same) ==
    IF i > Len(s.Fields) THEN same
    ELSE SameLoopLastOnly(req, s, query, i + 1, SameAt(req, s, query, i))

\* the loop over s.Fields: same starts true and one mismatch clears it
RECURSIVE SameLoop(_, _, _, _, _)
SameLoop(req, s, query, i, same) ==
    IF i > Len(s.Fields) THEN same
    ELSE SameLoop(req, s, query, i + 1,
                  IF ~SameAt(req, s, query, i) THEN FALSE ELSE same)

StructMatches(req, s, query) ==
    IF Len(s.Fields) # Len(query.Columns) THEN FALSE
    ELSE SameLoop(req, s, query, 1, TRUE)

\* the index of the first struct that matches, 0 when none does
FindStruct(req, structs, query) ==
    LET hits == {k \in 1..Len(structs) : StructMatches(req, structs[k], query)}
    IN IF hits = {} THEN 0 ELSE CHOOSE k \in hits : \A j \in hits : k <= j

\* HeadTest with CopyFrom skipped as a query without a command is
HeadTestCopySkipped(query) ==
    IF query.Name = << >> THEN "continue"
    ELSE IF query.Cmd = "" THEN "continue"
    ELSE IF query.Cmd = CmdCopyFrom THEN "continue"
    ELSE "build"

\* HeadTest with every command kind the templates do not render skipped
HeadTestRecognized(query) ==
    IF query.Name = << >> THEN "continue"
    ELSE IF query.Cmd \notin {CmdOne, CmdMany, CmdExec, CmdExecRows, CmdExecResult, CmdCopyFrom}
         THEN "continue"
    ELSE IF query.Cmd = CmdCopyFrom THEN "error"
    ELSE "build"

\* the tests at the head of the loop, in the order of the source
HeadTest(query) ==
    IF query.Name = << >> THEN "continue"
    ELSE IF query.Cmd = "" THEN "continue"
    ELSE IF query.Cmd = CmdCopyFrom THEN "error"
    ELSE "build"

ErrCopyFrom == "Support for CopyFrom in Kotlin is not implemented"

\* RetKind with the struct branch taken from three columns on
RetKindOver2(req, structs, query) ==
    IF Len(query.Columns) = 1 THEN "scalar"
    ELSE IF Len(query.Columns) > 2
         THEN IF FindStruct(req, structs, query) # 0 THEN "struct" ELSE "row"
         ELSE "none"

\* RetKind with the match against the catalog tried for a single column too
RetKindMatchOne(req, structs, query) ==
    IF Len(query.Columns) >= 1
    THEN IF FindStruct(req, structs, query) # 0 THEN "struct"
         ELSE IF Len(query.Columns) = 1 THEN "scalar" ELSE "row"
    ELSE "none"

\* which return value a kept query gets: by the number of its result columns,
\* and for several by whether a struct of the catalog matches
RetKind(req, structs, query) ==
    IF Len(query.Columns) = 1 THEN "scalar"
    ELSE IF Len(query.Columns) > 1
         THEN IF FindStruct(req, structs, query) # 0 THEN "struct" ELSE "row"
         ELSE "none"

SortByMethodName(queries) ==
    SortSlice(queries, [i \in 1..Len(queries) |-> queries[i].MethodName])

\* QueryValue.Type panics when there is neither a Typ nor a Struct; the
\* templates call it for :one and :many, and a panic ends Execute with an error
TemplateFails(queries) ==
    \E i \in 1..Len(queries) :
        /\ queries[i].Cmd \in {CmdOne, CmdMany}
        /\ queries[i].Ret.Typ = ZeroKtType
        /\ queries[i].Ret.Struct = << >>

(***************************************************************************)
(* The inputs: catalogs, queries and settings of a CodeGenRequest.         *)
(***************************************************************************)
SchemaP == << "p" >>
SchemaX == << "x" >>
NameT == << "t" >>
NameU == << "u" >>
NameTs == << "t", "s" >>
NameId == << "i", "d" >>
NameAb == << "a", "_", "b" >>
NameAbb == << "a", "_", "_", "b" >>
NameAB == << "a", "B" >>
NameE == << "e" >>

Col(name, type, notNull, table) ==
    [Name |-> name, Type |-> [Schema |-> << >>, Name |-> type], NotNull |-> notNull,
     IsArray |-> FALSE, Table |-> table, Comment |-> << >>]

Ref(schema, name) == << [Schema |-> schema, Name |-> name] >>

TableOf(name, columns) == [Rel |-> [Name |-> name], Columns |-> columns, Comment |-> << >>]

\* t(id int4 not null, a_b text), and u and ts of the same shape
TableT == TableOf(NameT, << Col(NameId, TInt4, TRUE, Ref(SchemaP, NameT)),
                            Col(NameAb, TText, FALSE, Ref(SchemaP, NameT)) >>)
TableU == TableOf(NameU, << Col(NameId, TInt4, TRUE, Ref(SchemaP, NameU)),
                            Col(NameAb, TText, FALSE, Ref(SchemaP, NameU)) >>)
TableTs == TableOf(NameTs, << Col(NameAb, TText, FALSE, Ref(SchemaP, NameTs)),
                              Col(NameAB, NameE, TRUE, Ref(SchemaP, NameTs)) >>)
\* t with its first column alone
TableT1 == TableOf(NameT, << Col(NameId, TInt4, TRUE, Ref(SchemaP, NameT)) >>)
TableSet == {TableT, TableU, TableTs}

EnumOf(name, vals) == [Name |-> name, Vals |-> vals, Comment |-> << >>]

SchemaOf(name, tables, enums) == [Name |-> name, Tables |-> tables, Enums |-> enums]

CatalogOf(schemas) == [DefaultSchema |-> SchemaP, Schemas |-> schemas]

SettingsOf(engine, rename, exact) ==
    [Engine |-> engine, Rename |-> rename,
     Kotlin |-> [EmitExactTableNames |-> exact, InflectionExcludeTableNames |-> {}]]

NoRename == [x \in {} |-> << >>]
RenameT == [x \in {NameT} |-> << "Z" >>]

QueryOf(name, cmd, text, params, columns) ==
    [Name |-> name, Cmd |-> cmd, Text |-> text, Params |-> params, Columns |-> columns,
     Comments |-> << >>, Filename |-> "query.sql"]

RequestOf(catalog, queries, settings) ==
    [Catalog |-> catalog, Queries |-> queries, Settings |-> settings]

Injective(s) == \A i, j \in 1..Len(s) : s[i] = s[j] => i = j

\* the parameter lists: every sequence of usages, with numbers repeated anywhere
ParamColumnSet ==
    {Col(<< >>, TText, TRUE, << >>), Col(NameAb, TInt4, FALSE, << >>),
     Col(NameAbb, TText, TRUE, << >>)}
ParamSet == [Number : 1..MaxNumber, Column : ParamColumnSet]
ParamRequests ==
    {RequestOf(CatalogOf(<< SchemaOf(SchemaP, << TableT >>, << >>) >>),
               << QueryOf(<< "g" >>, CmdExec, << >>, ps, << >>) >>,
               SettingsOf("postgresql", NoRename, FALSE))
        : ps \in SeqsUpTo(ParamSet, MaxParams)}

\* the result columns: those of t, qualified or not, and near misses of them
ResultColumns ==
    {Col(NameId, TInt4, TRUE, Ref(<< >>, NameT)),
     Col(NameAb, TText, FALSE, Ref(SchemaP, NameT)),
     Col(NameAB, TText, FALSE, Ref(SchemaP, NameT)),
     Col(NameAb, TText, FALSE, << >>),
     Col(NameAb, TInt4, FALSE, Ref(SchemaP, NameT)),
     Col(<< >>, TText, FALSE, << >>),
     Col(NameId, TInt4, TRUE, Ref(SchemaP, NameU))}
ResultCatalogs ==
    {CatalogOf(<< SchemaOf(SchemaP, << TableU, TableT >>, << >>) >>),
     CatalogOf(<< SchemaOf(SchemaP, << TableT1 >>, << >>) >>)}
ResultRequests ==
    {RequestOf(cat, << QueryOf(<< "g" >>, CmdMany, << >>, << >>, cs) >>,
               SettingsOf("postgresql", NoRename, TRUE))
        : cat \in ResultCatalogs, cs \in SeqsUpTo(ResultColumns, MaxColumns)}

\* the query lists: names and command kinds in every order
NoName == << >>
QuerySet ==
    {QueryOf(NoName, CmdExec, << >>, << >>, << >>),
     QueryOf(NoName, CmdCopyFrom, << >>, << >>, << >>),
     QueryOf(<< "b" >>, "", << >>, << >>, << >>),
     QueryOf(<< "b" >>, CmdExec, << >>, << >>, << >>),
     QueryOf(<< "B" >>, CmdExecRows, << >>, << >>, << >>),
     QueryOf(<< "A" >>, ":batchexec", << >>, << >>, << >>),
     QueryOf(<< "A" >>, CmdCopyFrom, << >>, << >>, << >>),
     QueryOf(<< "a" >>, CmdOne, << >>, << >>, << >>)}
ListRequests ==
    {RequestOf(CatalogOf(<< SchemaOf(SchemaP, << TableU, TableT >>, << >>) >>), qs,
               SettingsOf("mysql", NoRename, TRUE))
        : qs \in SeqsUpTo(QuerySet, MaxQueries)}

\* the catalogs: tables in every order, enum values, system schemas, renames
EnumVals == {<< "a", "-", "b" >>, << "a", "_", "b" >>, << "a" >>, << "A" >>, << "a", " ", "b" >>}
TableLists == {ts \in SeqsUpTo(TableSet, MaxTables) : Injective(ts)}
ValLists == {vs \in SeqsUpTo(EnumVals, MaxVals) : Injective(vs)}
CatalogRequests ==
    {RequestOf(CatalogOf(<< SchemaOf(sn, << TableT >>, << >>),
                            SchemaOf(SchemaP, ts, << EnumOf(NameE, vs) >>) >>),
               << >>, SettingsOf(eng, rn, exact))
        : sn \in {SchemaX, PgCatalog}, ts \in TableLists, vs \in ValLists,
          eng \in {"postgresql", "sqlite"}, rn \in {NoRename, RenameT},
          exact \in BOOLEAN}

\* the query texts: every string up to MaxText over a placeholder's characters,
\* a word character before or after it, a quote and an operator
TextAlphabet == {"$", "1", "a", "'", "="}
TextSet == SeqsUpTo(TextAlphabet, MaxText)
TextRequests ==
    {RequestOf(CatalogOf(<< SchemaOf(SchemaP, << >>, << >>) >>),
               << QueryOf(<< "a" >>, CmdExec, text, << >>, << >>) >>,
               SettingsOf(eng, NoRename, TRUE))
        : text \in TextSet, eng \in {"postgresql", "mysql"}}

Requests ==
    ParamRequests \cup ResultRequests \cup ListRequests \cup CatalogRequests
        \cup TextRequests

(***************************************************************************)
(* Generate as a state machine                                             *)
(***************************************************************************)
VARIABLES req, pc, enums, structs, qs, qi, gq, call, columns, ci, kt, err, resp

vars == << req, pc, enums, structs, qs, qi, gq, call, columns, ci, kt, err, resp >>

NoQuery == NewQuery(RequestOf(CatalogOf(<< >>), << >>, SettingsOf("", NoRename, FALSE)),
                    QueryOf(<< >>, "", << >>, << >>, << >>))

Init ==
    /\ req \in Requests
    /\ pc = "start"
    /\ enums = << >>
    /\ structs = << >>
    /\ qs = << >>
    /\ qi = 0
    /\ gq = NoQuery
    /\ call = ""
    /\ columns = << >>
    /\ ci = 0
    /\ kt = KtStart(<< >>)
    /\ err = ""
    /\ resp = << >>

\* Generate: buildEnums, buildDataClasses, and buildQueries up to its loop
GenerateStart ==
    /\ pc = "start"
    /\ enums' = buildEnums(req)
    /\ structs' = buildDataClasses(req)
    /\ qs' = << >>
    /\ qi' = 1
    /\ pc' = "loop"
    /\ UNCHANGED << req, gq, call, columns, ci, kt, err, resp >>

AtQuery == pc = "loop" /\ qi <= Len(req.Queries)

\* query.Name == "" and query.Cmd == "": continue
QuerySkip ==
    /\ AtQuery
    /\ HeadTest(req.Queries[qi]) = "continue"
    /\ qi' = qi + 1
    /\ UNCHANGED << req, pc, enums, structs, qs, gq, call, columns, ci, kt, err, resp >>

\* query.Cmd == metadata.CmdCopyFrom: buildQueries returns nil and the error,
\* and Generate returns nil and that error
QueryCopyFrom ==
    /\ AtQuery
    /\ HeadTest(req.Queries[qi]) = "error"
    /\ qs' = << >>
    /\ err' = ErrCopyFrom
    /\ resp' = << >>
    /\ pc' = "error"
    /\ UNCHANGED << req, enums, structs, qi, gq, call, columns, ci, kt >>

\* gq is built and ktColumnsToStruct is entered for the parameters
QueryBegin ==
    /\ AtQuery
    /\ HeadTest(req.Queries[qi]) = "build"
    /\ gq' = NewQuery(req, req.Queries[qi])
    /\ call' = "Bindings"
    /\ columns' = ParamColumns(req.Queries[qi])
    /\ kt' = KtStart(Title(req.Queries[qi].Name) \o StrBindings)
    /\ ci' = 1
    /\ pc' = "kt"
    /\ UNCHANGED << req, enums, structs, qs, qi, err, resp >>

\* ktColumnsToStruct, an iteration whose id is in idSeen
KtBindingSeen ==
    /\ pc = "kt"
    /\ ci <= Len(columns)
    /\ columns[ci].id \in DOMAIN kt.idSeen
    /\ kt' = KtRebind(kt, columns[ci])
    /\ ci' = ci + 1
    /\ UNCHANGED << req, pc, enums, structs, qs, qi, gq, call, columns, err, resp >>

\* ktColumnsToStruct, an iteration that makes a Field
KtNewField ==
    /\ pc = "kt"
    /\ ci <= Len(columns)
    /\ columns[ci].id \notin DOMAIN kt.idSeen
    /\ kt' = KtAddField(req, kt, columns[ci],
                        IF call = "Bindings" THEN "ktParamName" ELSE "ktColumnName")
    /\ ci' = ci + 1
    /\ UNCHANGED << req, pc, enums, structs, qs, qi, gq, call, columns, err, resp >>

ArgsDone == pc = "kt" /\ call = "Bindings" /\ ci > Len(columns)

WithArg(q, st) == [q EXCEPT !.Arg = [Struct |-> << st.gs >>]]

NextQuery(q) ==
    /\ qs' = Append(qs, q)
    /\ gq' = q
    /\ qi' = qi + 1
    /\ pc' = "loop"

\* no result column: Ret stays the zero QueryValue
RetNone ==
    /\ ArgsDone
    /\ RetKind(req, structs, req.Queries[qi]) = "none"
    /\ NextQuery(WithArg(gq, kt))
    /\ UNCHANGED << req, enums, structs, call, columns, ci, kt, err, resp >>

\* one result column: Ret is its type
RetScalar ==
    /\ ArgsDone
    /\ RetKind(req, structs, req.Queries[qi]) = "scalar"
    /\ NextQuery([WithArg(gq, kt) EXCEPT !.Ret =
            [ZeroQueryValue EXCEPT !.Name = "results",
                                   !.Typ = makeType(req, req.Queries[qi].Columns[1])]])
    /\ UNCHANGED << req, enums, structs, call, columns, ci, kt, err, resp >>

\* several result columns and a struct of the catalog that matches them
RetReuse ==
    /\ ArgsDone
    /\ RetKind(req, structs, req.Queries[qi]) = "struct"
    /\ NextQuery([WithArg(gq, kt) EXCEPT !.Ret =
            [ZeroQueryValue EXCEPT
                !.Emit = FALSE, !.Name = "results",
                !.Struct = << structs[FindStruct(req, structs, req.Queries[qi])] >>]])
    /\ UNCHANGED << req, enums, structs, call, columns, ci, kt, err, resp >>

\* several result columns and no match: ktColumnsToStruct is entered for the row
RowBegin ==
    /\ ArgsDone
    /\ RetKind(req, structs, req.Queries[qi]) = "row"
    /\ gq' = WithArg(gq, kt)
    /\ call' = "Row"
    /\ columns' = RowColumns(req.Queries[qi])
    /\ kt' = KtStart(gq.ClassName \o StrRow)
    /\ ci' = 1
    /\ UNCHANGED << req, pc, enums, structs, qs, qi, err, resp >>

\* the synthesized row is the return value, to be emitted
RetRow ==
    /\ pc = "kt"
    /\ call = "Row"
    /\ ci > Len(columns)
    /\ NextQuery([gq EXCEPT !.Ret =
            [ZeroQueryValue EXCEPT !.Emit = TRUE, !.Name = "results",
                                   !.Struct = << kt.gs >>]])
    /\ UNCHANGED << req, enums, structs, call, columns, ci, kt, err, resp >>

\* SortedQueries without the sort
SortedQueriesUnsorted(queries) == queries

\* the sort.Slice by MethodName that ends buildQueries
SortedQueries(queries) == SortByMethodName(queries)

\* the loop is over: buildQueries sorts and returns, Generate renders
BuildQueriesReturn ==
    /\ pc = "loop"
    /\ qi > Len(req.Queries)
    /\ qs' = SortedQueries(qs)
    /\ IF TemplateFails(qs)
       THEN /\ pc' = "error"
            /\ err' = "no type for QueryValue"
            /\ resp' = << >>
       ELSE /\ pc' = "done"
            /\ err' = ""
            /\ resp' = << [Enums |-> enums, DataClasses |-> structs,
                           Queries |-> SortedQueries(qs)] >>
    /\ UNCHANGED << req, enums, structs, qi, gq, call, columns, ci, kt >>

Next ==
    \/ GenerateStart
    \/ QuerySkip
    \/ QueryCopyFrom
    \/ QueryBegin
    \/ KtBindingSeen
    \/ KtNewField
    \/ RetNone
    \/ RetScalar
    \/ RetReuse
    \/ RowBegin
    \/ RetRow
    \/ BuildQueriesReturn

Spec == Init /\ [][Next]_vars

(***************************************************************************)
(* What the claims are stated with.                                        *)
(***************************************************************************)
\* the input query is one buildQueries builds a Query for
InputKept(query) ==
    query.Name # << >> /\ query.Cmd # "" /\ query.Cmd # CmdCopyFrom

\* the state right after an iteration appended its Query: the Query built last
\* is that of the input query before the loop's position
JustBuilt == pc = "loop" /\ qi > 1 /\ qs # << >> /\ InputKept(req.Queries[qi - 1])
Built == qs[Len(qs)]
Source == req.Queries[qi - 1]

IsPrefix(a, b) == Len(a) <= Len(b) /\ SubSeq(b, 1, Len(a)) = a

\* the first usage of the positional number that usage i has
FirstUse(ps, i) ==
    CHOOSE j \in 1..i :
        /\ ps[j].Number = ps[i].Number
        /\ \A k \in 1..(j - 1) : ps[k].Number # ps[i].Number

\* how many distinct numbers are first used up to usage j
FieldIndex(ps, j) == Cardinality({k \in 1..j : FirstUse(ps, k) = k})

\* the first n usages are bound to the Fields of their numbers' first usages
BindingsRight(gs, ps, n) ==
    /\ Len(gs.JDBCParamBindings) >= n
    /\ \A i \in 1..n :
         LET f == FirstUse(ps, i)
             r == FieldIndex(ps, f)
         IN /\ r <= Len(gs.Fields)
            /\ gs.JDBCParamBindings[i].Name = gs.Fields[r].Name
            /\ gs.JDBCParamBindings[i].Type = gs.Fields[r].Type
            /\ gs.JDBCParamBindings[i] = gs.JDBCParamBindings[f]
            /\ gs.Fields[r].Type = makeType(req, ps[f].Column)
            /\ IsPrefix(memberName(ktParamName(ps[f].Column, ps[f].Number), req.Settings),
                        gs.Fields[r].Name)

\* C1: in the argument struct of every kept query, binding i is the Field (same
\* Name, same Type) made for the first usage of the number of usage i, the
\* bindings are in usage order, and all usages of a number have one Field
C1_BindingsFollowFirstUse ==
    /\ (pc = "kt" /\ call = "Bindings") =>
           BindingsRight(kt.gs, req.Queries[qi].Params, ci - 1)
    /\ (pc = "kt" /\ call = "Row") =>
           BindingsRight(gq.Arg.Struct[1], req.Queries[qi].Params,
                         Len(req.Queries[qi].Params))
    /\ JustBuilt =>
           /\ Len(Built.Arg.Struct[1].JDBCParamBindings) = Len(Source.Params)
           /\ BindingsRight(Built.Arg.Struct[1], Source.Params, Len(Source.Params))

\* a Query was built whose parameters use a number, then another, then the first again
C1_Witness ==
    /\ JustBuilt
    /\ Len(Source.Params) = 3
    /\ Source.Params[1].Number = Source.Params[3].Number
    /\ Source.Params[1].Number # Source.Params[2].Number
    /\ Source.Params[1].Column # Source.Params[3].Column
    /\ Len(Built.Arg.Struct[1].Fields) = 2

DistinctNumbers(ps, n) == Cardinality({ps[k].Number : k \in 1..n})

\* after n usages: one Field per distinct number in order of first usage, one
\* binding per usage
ArgShape(gs, ps, n) ==
    /\ Len(gs.Fields) = DistinctNumbers(ps, n)
    /\ Len(gs.JDBCParamBindings) = n
    /\ Len(gs.JDBCParamBindings) >= Len(gs.Fields)
    /\ \A r \in 1..Len(gs.Fields) :
         \E j \in 1..n :
            /\ FirstUse(ps, j) = j
            /\ FieldIndex(ps, j) = r
            /\ gs.Fields[r].Type = makeType(req, ps[j].Column)
            /\ gs.Fields[r] = gs.JDBCParamBindings[j]

\* C2: in an argument struct the number of Fields is the number of distinct
\* positional numbers (one Field per number, in order of first usage) and the
\* number of bindings is the number of usages, so at least the number of
\* Fields; after every iteration of the loop and at its end
C2_FieldsAndBindingsCounts ==
    /\ (pc = "kt" /\ call = "Bindings") =>
           ArgShape(kt.gs, req.Queries[qi].Params, ci - 1)
    /\ JustBuilt => ArgShape(Built.Arg.Struct[1], Source.Params, Len(Source.Params))

\* inside the loop, after a repeated number was bound and before the last usage
C2_Witness ==
    /\ pc = "kt" /\ call = "Bindings"
    /\ ci > 1 /\ ci <= Len(columns)
    /\ Len(kt.gs.JDBCParamBindings) > Len(kt.gs.Fields)
    /\ columns[ci].id \notin DOMAIN kt.idSeen

UniqueFieldNames(st) ==
    \A i, j \in 1..Len(st.Fields) : st.Fields[i].Name = st.Fields[j].Name => i = j

\* every Struct there is: the data classes, the one being built, and the
\* argument and row structs of the Queries built
AllStructs ==
    Range(structs) \cup {kt.gs}
      \cup UNION {Range(qs[k].Arg.Struct) \cup Range(qs[k].Ret.Struct) : k \in 1..Len(qs)}

\* C3: in every Struct (data classes, argument structs, synthesized rows) no
\* two Fields have the same Name, whatever the columns
C3_FieldNamesUnique == \A st \in AllStructs : UniqueFieldNames(st)

\* the canonical structs: one per table of a schema that is not a system schema
CanonicalStructs ==
    UNION {IF req.Catalog.Schemas[i].Name \in {PgCatalog, InformationSchema} THEN {}
           ELSE {buildDataClass(req, req.Catalog.Schemas[i].Name,
                                req.Catalog.Schemas[i].Tables[j])
                    : j \in 1..Len(req.Catalog.Schemas[i].Tables)}
              : i \in 1..Len(req.Catalog.Schemas)}

\* position i of the columns is position i of the struct: same field name, same
\* type, and the column's table is the struct's, no schema meaning the default
PositionMatches(st, cols, i) ==
    /\ st.Fields[i].Name = memberName(ktColumnName(cols[i], i - 1), req.Settings)
    /\ st.Fields[i].Type = makeType(req, cols[i])
    /\ cols[i].Table # << >>
    /\ cols[i].Table[1].Name = st.Table.Name
    /\ \/ cols[i].Table[1].Schema = st.Table.Schema
       \/ cols[i].Table[1].Schema = << >> /\ st.Table.Schema = req.Catalog.DefaultSchema

ExactMatch(st, cols) ==
    /\ Len(st.Fields) = Len(cols)
    /\ \A i \in 1..Len(cols) : PositionMatches(st, cols, i)

\* C4: a query of two or more result columns that match a table's canonical
\* struct at every position returns that struct with Emit false, and no Row
\* struct is made for it
C4_ExactMatchReusesTableStruct ==
    /\ JustBuilt /\ Len(Source.Columns) >= 2 =>
           \A st \in CanonicalStructs :
               ExactMatch(st, Source.Columns) =>
                   /\ Built.Ret.Struct = << st >>
                   /\ Built.Ret.Emit = FALSE
                   /\ Built.Ret.Struct[1].Name # Built.ClassName \o StrRow
    /\ (pc = "kt" /\ call = "Row") =>
           \A st \in CanonicalStructs : ~ExactMatch(st, req.Queries[qi].Columns)

\* a Query was built for columns that match a table's struct, one of them with
\* no schema on its table, in a catalog of two tables
C4_Witness ==
    /\ JustBuilt
    /\ Len(Source.Columns) >= 2
    /\ Len(structs) >= 2
    /\ \E st \in CanonicalStructs : ExactMatch(st, Source.Columns)
    /\ \E i \in 1..Len(Source.Columns) :
          Source.Columns[i].Table # << >> /\ Source.Columns[i].Table[1].Schema = << >>
    /\ ~Built.Ret.Emit

AnyCopyFrom == \E i \in 1..Len(req.Queries) : req.Queries[i].Cmd = CmdCopyFrom

\* C5 as stated: a CopyFrom query anywhere in the input, whatever its name,
\* keeps Generate from returning a response
C5_AnyCopyFromAborts ==
    AnyCopyFrom => pc # "done" /\ resp = << >>

NamedCopyFromAt(i) ==
    req.Queries[i].Name # << >> /\ req.Queries[i].Cmd = CmdCopyFrom

\* C5 amended: a CopyFrom query with a non-empty name, at any position, aborts
\* the run: the loop never goes past it, buildQueries returns the error and no
\* list, Generate returns that error and no response
C5_NamedCopyFromAborts ==
    \A i \in 1..Len(req.Queries) :
        NamedCopyFromAt(i) =>
            /\ pc # "done"
            /\ resp = << >>
            /\ pc \in {"loop", "kt"} => qi <= i
            /\ pc = "kt" => qi < i
            /\ pc = "error" => err = ErrCopyFrom /\ qs = << >>

\* the run was aborted at a CopyFrom query that is not the first, after a Query
\* had been built
C5_Witness ==
    /\ pc = "error"
    /\ err = ErrCopyFrom
    /\ qi > 1
    /\ NamedCopyFromAt(qi)
    /\ \E j \in 1..(qi - 1) : InputKept(req.Queries[j])
    /\ qs = << >>

RecognizedCmds == {CmdOne, CmdMany, CmdExec, CmdExecRows, CmdExecResult}

OutputKey(q) == << q.ClassName, q.Cmd >>
InputKey(query) == << Title(query.Name), query.Cmd >>

\* the output holds one Query for each input query whose index is in kept, and
\* no other
OutputIsExactly(kept) ==
    /\ Len(qs) = Cardinality(kept)
    /\ \A key \in {OutputKey(qs[k]) : k \in 1..Len(qs)}
                    \cup {InputKey(req.Queries[i]) : i \in 1..Len(req.Queries)} :
          Cardinality({k \in 1..Len(qs) : OutputKey(qs[k]) = key})
            = Cardinality({i \in kept : InputKey(req.Queries[i]) = key})

NamedAndRecognized ==
    {i \in 1..Len(req.Queries) :
        req.Queries[i].Name # << >> /\ req.Queries[i].Cmd \in RecognizedCmds}
NamedWithCmd ==
    {i \in 1..Len(req.Queries) : req.Queries[i].Name # << >> /\ req.Queries[i].Cmd # ""}

C7_ReturnByColumnCount ==
    JustBuilt =>
        LET n == Len(Source.Columns)
            r == Built.Ret
        IN /\ n = 0 => isEmpty(r) /\ ~IsStruct(r) /\ ~r.Emit
           /\ n = 1 => /\ r.Typ = makeType(req, Source.Columns[1])
                       /\ r.Typ # ZeroKtType
                       /\ r.Struct = << >>
                       /\ r.Emit = FALSE
           /\ n >= 2 => IsStruct(r) /\ r.Typ = ZeroKtType

\* a Query was built for a single column that is all of a one-column table
C7_Witness ==
    /\ JustBuilt
    /\ Len(Source.Columns) = 1
    /\ \E st \in CanonicalStructs : ExactMatch(st, Source.Columns)
    /\ Built.Ret.Struct = << >>

\* C8 as stated: in every Enum two distinct raw values have different constant
\* names, and every Constant has its raw value as Value
C8_EnumNamesUnique ==
    pc # "start" =>
        \A e \in Range(enums) :
            \A i, j \in 1..Len(e.Constants) :
                e.Constants[i].Value # e.Constants[j].Value
                    => e.Constants[i].Name # e.Constants[j].Name

\* a <= b in Go's order of strings: a is a prefix of b, or less where they differ
StrLeq(a, b) ==
    \/ IsPrefix(a, b)
    \/ \E i \in 1..Len(a) :
          /\ i <= Len(b)
          /\ SubSeq(a, 1, i - 1) = SubSeq(b, 1, i - 1)
          /\ CharCode(a[i]) < CharCode(b[i])

NonDecreasing(keys) == \A i \in 1..(Len(keys) - 1) : StrLeq(keys[i], keys[i + 1])

StructNames == [i \in 1..Len(structs) |-> structs[i].Name]
MethodNames == [i \in 1..Len(qs) |-> qs[i].MethodName]

\* C9: the Structs of buildDataClasses are in non-decreasing order of Name and
\* the Queries that buildQueries returns in non-decreasing order of
\* MethodName, whatever the order of the tables and of the queries
C9_ListsSorted ==
    /\ pc # "start" => NonDecreasing(StructNames)
    /\ (pc = "done" \/ (pc = "error" /\ err # ErrCopyFrom)) => NonDecreasing(MethodNames)
    /\ pc = "done" => resp[1].Queries = qs /\ resp[1].DataClasses = structs

\* a run ended with tables and queries that were not given in sorted order
C9_Witness ==
    /\ pc = "done"
    /\ Len(qs) = 3
    /\ Len(structs) >= 2
    /\ qs[1].MethodName # qs[3].MethodName
    /\ structs[1].Table.Name # req.Catalog.Schemas[1].Tables[1].Rel.Name
    /\ \E i, j \in 1..Len(req.Queries) :
          /\ i < j
          /\ InputKept(req.Queries[i]) /\ InputKept(req.Queries[j])
          /\ ~StrLeq(LowerTitle(req.Queries[i].Name), LowerTitle(req.Queries[j].Name))

\* C10: a struct returned with Emit false is a data class that matches the
\* result columns at every position; when no data class matches at every
\* position the struct is a new one, named the class name and Row, with Emit
\* true and one Field per result column in order
C10_ReuseOnlyOnFullMatch ==
    JustBuilt /\ Built.Ret.Struct # << >> =>
        LET r == Built.Ret
            st == Built.Ret.Struct[1]
            cols == Source.Columns
        IN /\ ~r.Emit => /\ \E k \in 1..Len(structs) : structs[k] = st
                         /\ ExactMatch(st, cols)
           /\ (\A k \in 1..Len(structs) : ~ExactMatch(structs[k], cols)) =>
                 /\ r.Emit
                 /\ st.Name = Built.ClassName \o StrRow
                 /\ Len(st.Fields) = Len(cols)
                 /\ \A i \in 1..Len(cols) :
                       /\ st.Fields[i].Type = makeType(req, cols[i])
                       /\ IsPrefix(memberName(ktColumnName(cols[i], i - 1), req.Settings),
                                   st.Fields[i].Name)

\* a Row struct was made for columns that miss a data class at the first
\* position alone
C10_Witness ==
    /\ JustBuilt
    /\ Built.Ret.Emit
    /\ \E k \in 1..Len(structs) :
          /\ Len(structs[k].Fields) = Len(Source.Columns)
          /\ ~PositionMatches(structs[k], Source.Columns, 1)
          /\ \A i \in 2..Len(Source.Columns) : PositionMatches(structs[k], Source.Columns, i)

(***************************************************************************)
(* C11: the rewrite of the query text                                      *)
(***************************************************************************)
\* the text with every "$" that is followed by digits replaced, together
\* with its digits, by one "?", every other character kept in order
RECURSIVE EveryTokenReplaced(_, _)
EveryTokenReplaced(s, i) ==
    IF i > Len(s) THEN << >>
    ELSE IF s[i] = "$" /\ DigitsEnd(s, i + 1) > i
         THEN << "?" >> \o EveryTokenReplaced(s, DigitsEnd(s, i + 1) + 1)
         ELSE << s[i] >> \o EveryTokenReplaced(s, i + 1)

\* C11: the SQL of a built Query is, for engine postgresql, the query text
\* with each token of "$" followed by digits replaced by a single "?", tokens
\* inside string literals included, and all other characters kept in order;
\* for every other engine the SQL is the text unchanged
C11_EveryPlaceholderRewritten ==
    JustBuilt =>
        Built.SQL = IF req.Settings.Engine = "postgresql"
                    THEN EveryTokenReplaced(Source.Text, 1)
                    ELSE Source.Text

====
